---- MODULE Spec2Model ----
(***************************************************************************)
(* The Iris prediction service of app.py: the Flask handlers health_check, *)
(* predict and predict_multiple and the 404/405 error handlers, run by     *)
(* worker threads against the module-level model, scaler and SPECIES_MAP.  *)
(*                                                                         *)
(* Numbers are kept in tenths (5.1 is 51), so the RangeProfile bounds      *)
(* 4, 8, 2, 4.5, 1, 7, 0.1, 2.5 are 40, 80, 20, 45, 10, 70, 1, 25.         *)
(* A JSON value is [t, v]: t is "int", "float" or "str", v the tenths.     *)
(* Probabilities are kept in percent.                                      *)
(***************************************************************************)
EXTENDS Integers, Sequences, FiniteSets, TLC

VARIABLES
    model,        \* the classifier loaded at import time
    scaler,       \* the scaler loaded at import time
    SPECIES_MAP,  \* the module-level index -> label dict
    req           \* per worker thread: the request it is handling

vars == <<model, scaler, SPECIES_MAP, req>>

----------------------------------------------------------------------------
(* Bounds of the model *)

\* longest `samples` list a batch request carries under Spec
MaxBatch == 2

\* worker threads handling requests at the same time under SpecConc
NumWorkers == 2

----------------------------------------------------------------------------
(* JSON values *)

IntVal(n) == [t |-> "int", v |-> 10 * n]

FloatVal(tenths) == [t |-> "float", v |-> tenths]

StrVal == [t |-> "str", v |-> 0]

IsNumber(x) == x.t # "str"

\* Python's float(x) on a JSON number
ToFloat(x) == [t |-> "float", v |-> x.v]

\* a JSON number as the client writes it: 4 is an int, 4.5 a float
Num(tenths) == IF tenths % 10 = 0 THEN IntVal(tenths \div 10) ELSE FloatVal(tenths)

----------------------------------------------------------------------------
(* Constants of app.py *)

required_features == <<"sepal_length", "sepal_width", "petal_length", "petal_width">>

RangeLo == [sepal_length |-> 40, sepal_width |-> 20, petal_length |-> 10, petal_width |-> 1]

RangeHi == [sepal_length |-> 80, sepal_width |-> 45, petal_length |-> 70, petal_width |-> 25]

\* the field names of a FeatureVector
Keys == DOMAIN RangeLo

SpeciesMapLiteral == (0 :> "setosa") @@ (1 :> "versicolor") @@ (2 :> "virginica")

Labels == {"setosa", "versicolor", "virginica"}

----------------------------------------------------------------------------
(* The collaborators: the StandardScaler and the RandomForestClassifier.   *)
(* Both are opaque to app.py; what the handlers see of them is a           *)
(* deterministic function of the argument and of the object's own fitted   *)
(* state, or an exception. A call's result is [ok, msg, val].              *)

Ok(val) == [ok |-> TRUE, msg |-> "", val |-> val]

Raised(msg) == [ok |-> FALSE, msg |-> msg, val |-> <<>>]

\* StandardScaler fitted on the Iris data: per-feature mean and scale, in tenths
FittedScaler == [fitted |-> TRUE, mean |-> <<58, 31, 38, 12>>, scale |-> <<8, 4, 18, 8>>]

UnfittedScaler == [FittedScaler EXCEPT !.fitted = FALSE]

\* scaler.transform(features): (x - mean) / scale per feature
ScalerTransform(s, features) ==
    IF ~s.fitted THEN Raised("This StandardScaler instance is not fitted yet.")
    ELSE IF \E k \in 1..Len(features) : ~IsNumber(features[k])
    THEN Raised("could not convert string to float")
    ELSE Ok([k \in 1..Len(features) |->
               (10 * (features[k].v - s.mean[k])) \div s.scale[k]])

\* the leaf distributions the forest averages to, in percent
ForestVotes == << <<100, 0, 0>>, <<10, 80, 10>>, <<0, 30, 70>>, <<50, 50, 0>> >>

RECURSIVE SumSeq(_)
SumSeq(s) == IF s = <<>> THEN 0 ELSE Head(s) + SumSeq(Tail(s))

\* Python's max() of a non-empty sequence
Max(s) == CHOOSE x \in {s[k] : k \in 1..Len(s)} : \A k \in 1..Len(s) : s[k] <= x

\* numpy's argmax: the first position of the maximum
ArgMax(s) == CHOOSE k \in 1..Len(s) : s[k] = Max(s) /\ \A j \in 1..(k - 1) : s[j] # Max(s)

\* model.predict_proba(features_scaled)[0]
ModelPredictProba(m, z) ==
    IF ~m.fitted THEN Raised("This RandomForestClassifier instance is not fitted yet.")
    ELSE Ok(ForestVotes[((SumSeq(z) + m.seed) % Len(ForestVotes)) + 1])

\* model.predict(features_scaled)[0]: classes_[argmax(predict_proba)]
ModelPredict(m, z) ==
    LET p == ModelPredictProba(m, z)
    IN  IF ~p.ok THEN p ELSE Ok(m.classes[ArgMax(p.val)])

\* the classifier create_model.py trains: classes 0, 1, 2
IrisModel(seed) == [fitted |-> TRUE, classes |-> <<0, 1, 2>>, seed |-> seed]

\* a classifier artifact trained with other class indices, loaded from MODEL_PATH
ForeignModel == [fitted |-> TRUE, classes |-> <<1, 2, 3>>, seed |-> 0]

UnfittedModel == [IrisModel(0) EXCEPT !.fitted = FALSE]

Models == {IrisModel(0), IrisModel(1), ForeignModel, UnfittedModel}

Scalers == {FittedScaler, UnfittedScaler}

----------------------------------------------------------------------------
(* Pieces of predict() *)

\* all(feature in data for feature in required_features)
HasAllFeatures(fields) == \A k \in 1..Len(required_features) : required_features[k] \in DOMAIN fields

\* features = np.array([[data['sepal_length'], ...]])
ExtractFeatures(fields) == [k \in 1..Len(required_features) |-> fields[required_features[k]]]

AllNumbers(fields) == \A f \in DOMAIN fields : IsNumber(fields[f])

\* a slip: strict comparisons, which leave the endpoints out
RECURSIVE RangeFrom_Strict(_, _)
RangeFrom_Strict(fields, k) ==
    IF k > Len(required_features) THEN "in"
    ELSE LET f == required_features[k]
             x == fields[f]
         IN  IF ~IsNumber(x) THEN "raise"
             ELSE IF RangeLo[f] < x.v /\ x.v < RangeHi[f]
                  THEN RangeFrom_Strict(fields, k + 1)
                  ELSE "out"

\* the chained comparison 4 <= x <= 8 and 2 <= y <= 4.5 and ...: left to right,
\* stopping at the first false comparison; a str operand raises TypeError
RECURSIVE RangeFrom(_, _)
RangeFrom(fields, k) ==
    IF k > Len(required_features) THEN "in"
    ELSE LET f == required_features[k]
             x == fields[f]
         IN  IF ~IsNumber(x) THEN "raise"
             ELSE IF RangeLo[f] <= x.v /\ x.v <= RangeHi[f]
                  THEN RangeFrom(fields, k + 1)
                  ELSE "out"

\* a slip: `or` between the four comparisons instead of `and`
RangeCheck_AllOutside(fields) ==
    IF ~AllNumbers(fields) THEN "raise"
    ELSE IF \E f \in Keys : RangeLo[f] <= fields[f].v /\ fields[f].v <= RangeHi[f]
    THEN "in"
    ELSE "out"

RangeCheck(fields) == RangeFrom(fields, 1)

\* a slip: the `, 400` is left off the return
MissingFeaturesResponse_NoStatus ==
    [status |-> 200,
     json |-> [error |-> "Missing required features", required |-> required_features]]

MissingFeaturesResponse ==
    [status |-> 400,
     json |-> [error |-> "Missing required features", required |-> required_features]]

OutOfRangeResponse ==
    [status |-> 200,
     json |-> [warning |-> "Measurements outside typical Iris range",
               predicted_species |-> "unknown"]]

\* the jsonify({...}) of a successful single prediction
PredictionResponse(species, probabilities, fields) ==
    [status |-> 200,
     json |-> [predicted_species |-> species,
               confidence |-> Max(probabilities),
               probabilities |-> [setosa |-> probabilities[1],
                                  versicolor |-> probabilities[2],
                                  virginica |-> probabilities[3]],
               measurements |-> [sepal_length |-> ToFloat(fields["sepal_length"]),
                                 sepal_width |-> ToFloat(fields["sepal_width"]),
                                 petal_length |-> ToFloat(fields["petal_length"]),
                                 petal_width |-> ToFloat(fields["petal_width"])]]]

\* the body of predict()'s except clause
PredictionFailed(msg) ==
    [status |-> 500, json |-> [error |-> "Prediction failed", message |-> msg]]

----------------------------------------------------------------------------
(* Pieces of predict_multiple() *)

NoSamplesResponse == [status |-> 400, json |-> [error |-> "No samples provided"]]

\* a slip: sample ids counted from one
BatchEntry_OneBased(i, species, probabilities, sample) ==
    [sample_id |-> i + 1,
     predicted_species |-> species,
     confidence |-> Max(probabilities),
     measurements |-> sample]

\* a slip: the entry built as predict() builds its response
BatchEntry_WithProbabilities(i, species, probabilities, sample) ==
    [sample_id |-> i,
     predicted_species |-> species,
     confidence |-> Max(probabilities),
     probabilities |-> [setosa |-> probabilities[1],
                        versicolor |-> probabilities[2],
                        virginica |-> probabilities[3]],
     measurements |-> sample]

\* a slip: the range policy of predict() applied to the entry
BatchEntry_RangeChecked(i, species, probabilities, sample) ==
    [sample_id |-> i,
     predicted_species |-> IF RangeCheck(sample) = "out" THEN "unknown" ELSE species,
     confidence |-> Max(probabilities),
     measurements |-> sample]

\* results.append({...})
BatchEntry(i, species, probabilities, sample) ==
    [sample_id |-> i,
     predicted_species |-> species,
     confidence |-> Max(probabilities),
     measurements |-> sample]

BatchResponse(results) ==
    [status |-> 200, json |-> [total_samples |-> Len(results), predictions |-> results]]

\* the body of predict_multiple()'s except clause
BatchFailed(msg) ==
    [status |-> 500, json |-> [error |-> "Batch prediction failed", message |-> msg]]

\* the first of sample['sepal_length'], ... that raises KeyError, 0 when none does
FirstMissing(sample) ==
    IF HasAllFeatures(sample) THEN 0
    ELSE CHOOSE k \in 1..Len(required_features) :
            /\ required_features[k] \notin DOMAIN sample
            /\ \A j \in 1..(k - 1) : required_features[j] \in DOMAIN sample

----------------------------------------------------------------------------
(* Requests *)

\* the first sample of test_api.py, the classic setosa exemplar
Setosa == [sepal_length |-> FloatVal(51), sepal_width |-> FloatVal(35),
           petal_length |-> FloatVal(14), petal_width |-> FloatVal(2)]

\* the second sample of test_api.py
Virginica == [sepal_length |-> FloatVal(67), sepal_width |-> IntVal(3),
              petal_length |-> FloatVal(52), petal_width |-> FloatVal(23)]

\* petal_width: 99
WildSample == [Setosa EXCEPT !.petal_width = IntVal(99)]

NonNumericSample == [Setosa EXCEPT !.petal_length = StrVal]

Without(sample, f) == [g \in (DOMAIN sample) \ {f} |-> sample[g]]

\* what a client may send for feature f: just outside and on both endpoints,
\* the value of the test sample, and a string
FeatureValues(f) ==
    {Num(RangeLo[f] - 1), Num(RangeLo[f]), Setosa[f], Num(RangeHi[f]), Num(RangeHi[f] + 1), StrVal}

AllValues == UNION {FeatureValues(f) : f \in Keys}

Mappings ==
    UNION {{m \in [K -> AllValues] : \A f \in K : m[f] \in FeatureValues(f)} : K \in SUBSET Keys}

\* request.get_json() of a /predict request: a mapping, or None for the body `null`
PredictBodies ==
    {[isNone |-> TRUE, fields |-> <<>>]} \cup {[isNone |-> FALSE, fields |-> m] : m \in Mappings}

BatchSamples == {Setosa, Virginica, WildSample, NonNumericSample, Without(Setosa, "sepal_width")}

SeqsUpTo(S, n) == UNION {[1..k -> S] : k \in 0..n}

\* request.get_json() of a /predict_multiple request, with or without a `samples` key
BatchBodies ==
    {[has_samples |-> FALSE, samples |-> <<>>]}
        \cup {[has_samples |-> TRUE, samples |-> s] : s \in SeqsUpTo(BatchSamples, MaxBatch)}

\* the bodies sent while several workers run
ConcPredictBodies ==
    {[isNone |-> TRUE, fields |-> <<>>]}
        \cup {[isNone |-> FALSE, fields |-> m] :
                 m \in {Setosa, Virginica, WildSample, NonNumericSample, Without(Setosa, "petal_width")}}

ConcBatchBodies ==
    {[has_samples |-> TRUE, samples |-> s] :
        s \in {<<>>, <<Virginica>>, <<Setosa, WildSample>>, <<Virginica, NonNumericSample>>}}

NoCalls == [transform |-> 0, predict |-> 0, predict_proba |-> 0]

\* a worker with no request
Idle ==
    [route |-> "idle", pc |-> "idle", data |-> <<>>, features |-> <<>>,
     features_scaled |-> <<>>, prediction |-> -1, probabilities |-> <<>>,
     i |-> 0, results |-> <<>>, exc |-> "", calls |-> NoCalls, sent |-> <<>>]

\* return jsonify(...), status
Respond(r, response) == [r EXCEPT !.pc = "done", !.sent = Append(@, response)]

\* an exception with message msg is raised in the handler's try block
Raise(r, msg) == [r EXCEPT !.exc = msg]

Called(r, what) == [r EXCEPT !.calls[what] = @ + 1]

Set(w, r) == /\ req' = [req EXCEPT ![w] = r]
             /\ UNCHANGED <<model, scaler, SPECIES_MAP>>

----------------------------------------------------------------------------
(* Routing *)

Receive(w, route, pc, data) ==
    /\ req[w].pc = "idle"
    /\ Set(w, [Idle EXCEPT !.route = route, !.pc = pc, !.data = data])

ReceiveHealth(w) == Receive(w, "/", "health_check", <<>>)

ReceivePredict(w, data) == Receive(w, "/predict", "validate", data)

ReceiveBatch(w, data) == Receive(w, "/predict_multiple", "samples", data)

ReceiveUnknownPath(w) == Receive(w, "unmapped", "not_found", <<>>)

ReceiveWrongMethod(w) == Receive(w, "wrong method", "method_not_allowed", <<>>)

\* the response has gone out and the worker takes the next request
Complete(w) ==
    /\ req[w].pc = "done"
    /\ Set(w, Idle)

health_check(w) ==
    /\ req[w].pc = "health_check"
    /\ Set(w, Respond(req[w], [status |-> 200,
                               json |-> [status |-> "healthy",
                                         message |-> "Iris Classification API is running!",
                                         version |-> "1.0.0"]]))

not_found(w) ==
    /\ req[w].pc = "not_found"
    /\ Set(w, Respond(req[w], [status |-> 404, json |-> [error |-> "Endpoint not found"]]))

method_not_allowed(w) ==
    /\ req[w].pc = "method_not_allowed"
    /\ Set(w, Respond(req[w], [status |-> 405, json |-> [error |-> "Method not allowed"]]))

----------------------------------------------------------------------------
(* predict() *)

\* a slip: the error is swallowed and the "unknown" sentinel returned instead
PredictExcept_Fallback(r, msg) == Respond(Raise(r, msg), OutOfRangeResponse)

\* except Exception as e: return jsonify({"error": "Prediction failed", ...}), 500
PredictExcept(r, msg) == Respond(Raise(r, msg), PredictionFailed(msg))

\* data = request.get_json(); the presence check; features = np.array(...)
ValidateStep(r) ==
    IF r.data.isNone
    THEN PredictExcept(r, "argument of type 'NoneType' is not iterable")
    ELSE IF ~HasAllFeatures(r.data.fields)
    THEN Respond(r, MissingFeaturesResponse)
    ELSE [r EXCEPT !.pc = "range", !.features = ExtractFeatures(r.data.fields)]

\* if not (4 <= data['sepal_length'] <= 8 and ...): return the "unknown" warning
RangeStep(r) ==
    LET c == RangeCheck(r.data.fields)
    IN  IF c = "raise"
        THEN PredictExcept(r, "'<=' not supported between instances of 'int' and 'str'")
        ELSE IF c = "out"
        THEN Respond(r, OutOfRangeResponse)
        ELSE [r EXCEPT !.pc = "scale"]

\* features_scaled = scaler.transform(features)
ScaleStep(r) ==
    LET t == ScalerTransform(scaler, r.features)
        c == Called(r, "transform")
    IN  IF ~t.ok THEN PredictExcept(c, t.msg)
        ELSE [c EXCEPT !.pc = "infer", !.features_scaled = t.val]

\* prediction = model.predict(...)[0]; probabilities = model.predict_proba(...)[0]
InferStep(r) ==
    LET y  == ModelPredict(model, r.features_scaled)
        c1 == Called(r, "predict")
        p  == ModelPredictProba(model, r.features_scaled)
        c2 == Called(c1, "predict_proba")
    IN  IF ~y.ok THEN PredictExcept(c1, y.msg)
        ELSE IF ~p.ok THEN PredictExcept(c2, p.msg)
        ELSE [c2 EXCEPT !.pc = "respond", !.prediction = y.val, !.probabilities = p.val]

\* species = SPECIES_MAP[prediction]; return jsonify({...})
RespondStep(r) ==
    IF r.prediction \notin DOMAIN SPECIES_MAP
    THEN PredictExcept(r, ToString(r.prediction))
    ELSE Respond(r, PredictionResponse(SPECIES_MAP[r.prediction], r.probabilities,
                                       r.data.fields))

PredictValidate(w) == req[w].pc = "validate" /\ Set(w, ValidateStep(req[w]))

PredictRange(w) == req[w].pc = "range" /\ Set(w, RangeStep(req[w]))

PredictScale(w) == req[w].pc = "scale" /\ Set(w, ScaleStep(req[w]))

PredictInfer(w) == req[w].pc = "infer" /\ Set(w, InferStep(req[w]))

PredictRespond(w) == req[w].pc = "respond" /\ Set(w, RespondStep(req[w]))

----------------------------------------------------------------------------
(* predict_multiple() *)

\* a slip: the failed sample gets an error entry and the loop goes on
BatchExcept_Isolated(r, msg) ==
    [Raise(r, msg) EXCEPT !.i = @ + 1,
                          !.results = Append(@, [sample_id |-> r.i, error |-> msg])]

\* except Exception as e: return jsonify({"error": "Batch prediction failed", ...}), 500
BatchExcept(r, msg) == Respond(Raise(r, msg), BatchFailed(msg))

\* samples = data.get('samples', [])
Samples(data) == IF data.has_samples THEN data.samples ELSE <<>>

\* a slip: no check for an empty list
SamplesStep_NoEmptyCheck(r) == [r EXCEPT !.pc = "loop", !.i = 0, !.results = <<>>]

\* if not samples: return 400; results = []
SamplesStep(r) ==
    IF Samples(r.data) = <<>> THEN Respond(r, NoSamplesResponse)
    ELSE [r EXCEPT !.pc = "loop", !.i = 0, !.results = <<>>]

\* one turn of `for i, sample in enumerate(samples)`: r.i samples are done
LoopStep(r) ==
    LET sample == Samples(r.data)[r.i + 1]
        miss   == FirstMissing(sample)
        key    == "'" \o required_features[miss] \o "'"
        t  == ScalerTransform(scaler, ExtractFeatures(sample))
        c0 == Called(r, "transform")
        y  == ModelPredict(model, t.val)
        c1 == Called(c0, "predict")
        p  == ModelPredictProba(model, t.val)
        c2 == Called(c1, "predict_proba")
    IN  IF miss # 0 THEN BatchExcept(r, key)
        ELSE IF ~t.ok THEN BatchExcept(c0, t.msg)
        ELSE IF ~y.ok THEN BatchExcept(c1, y.msg)
        ELSE IF ~p.ok THEN BatchExcept(c2, p.msg)
        ELSE IF y.val \notin DOMAIN SPECIES_MAP
        THEN BatchExcept(c2, ToString(y.val))
        ELSE [c2 EXCEPT !.i = @ + 1,
                        !.results = Append(@, BatchEntry(r.i, SPECIES_MAP[y.val], p.val, sample))]

\* return jsonify({"total_samples": len(results), "predictions": results})
ReturnStep(r) == Respond(r, BatchResponse(r.results))

BatchSamplesStep(w) == req[w].pc = "samples" /\ Set(w, SamplesStep(req[w]))

\* a slip: scaler.fit_transform(features) instead of scaler.transform(features),
\* which refits the shared scaler on the sample
BatchLoop_Refit(w) ==
    /\ req[w].pc = "loop"
    /\ req[w].i < Len(Samples(req[w].data))
    /\ req' = [req EXCEPT ![w] = LoopStep(req[w])]
    /\ scaler' = [scaler EXCEPT !.mean =
                     [k \in 1..Len(required_features) |->
                        Samples(req[w].data)[req[w].i + 1][required_features[k]].v]]
    /\ UNCHANGED <<model, SPECIES_MAP>>

BatchLoop(w) ==
    /\ req[w].pc = "loop"
    /\ req[w].i < Len(Samples(req[w].data))
    /\ Set(w, LoopStep(req[w]))

BatchReturn(w) ==
    /\ req[w].pc = "loop"
    /\ req[w].i = Len(Samples(req[w].data))
    /\ Set(w, ReturnStep(req[w]))

----------------------------------------------------------------------------
(* The service *)

Handle(w) ==
    \/ health_check(w)
    \/ not_found(w)
    \/ method_not_allowed(w)
    \/ PredictValidate(w)
    \/ PredictRange(w)
    \/ PredictScale(w)
    \/ PredictInfer(w)
    \/ PredictRespond(w)
    \/ BatchSamplesStep(w)
    \/ BatchLoop(w)
    \/ BatchReturn(w)
    \/ Complete(w)

Arrive(w, predictBodies, batchBodies) ==
    \/ ReceiveHealth(w)
    \/ ReceiveUnknownPath(w)
    \/ ReceiveWrongMethod(w)
    \/ \E data \in predictBodies : ReceivePredict(w, data)
    \/ \E data \in batchBodies : ReceiveBatch(w, data)

\* one worker, every request body
Init ==
    /\ model \in Models
    /\ scaler \in Scalers
    /\ SPECIES_MAP = SpeciesMapLiteral
    /\ req = [w \in 1..1 |-> Idle]

Next == \E w \in 1..1 : Arrive(w, PredictBodies, BatchBodies) \/ Handle(w)

Spec == Init /\ [][Next]_vars

\* NumWorkers workers at the same time, a few request bodies
InitConc ==
    /\ model \in Models
    /\ scaler \in Scalers
    /\ SPECIES_MAP = SpeciesMapLiteral
    /\ req = [w \in 1..NumWorkers |-> Idle]

NextConc == \E w \in 1..NumWorkers : Arrive(w, ConcPredictBodies, ConcBatchBodies) \/ Handle(w)

SpecConc == InitConc /\ [][NextConc]_vars

----------------------------------------------------------------------------
(* Vocabulary of the properties *)

W == DOMAIN req

Canonical == <<"sepal_length", "sepal_width", "petal_length", "petal_width">>

\* a /predict request whose body is a mapping
OnPredict(w) == req[w].route = "/predict" /\ ~req[w].data.isNone

OnBatch(w) == req[w].route = "/predict_multiple"

Done(w) == req[w].pc = "done"

LacksAKey(fields) == \E k \in 1..4 : Canonical[k] \notin DOMAIN fields

AllNumeric(fields) == \A f \in DOMAIN fields : fields[f].t \in {"int", "float"}

\* every value within its closed interval, in tenths
WithinProfile(fields) ==
    /\ 40 <= fields["sepal_length"].v /\ fields["sepal_length"].v <= 80
    /\ 20 <= fields["sepal_width"].v /\ fields["sepal_width"].v <= 45
    /\ 10 <= fields["petal_length"].v /\ fields["petal_length"].v <= 70
    /\ 1 <= fields["petal_width"].v /\ fields["petal_width"].v <= 25

NeverCalled(w) ==
    req[w].calls.transform = 0 /\ req[w].calls.predict = 0 /\ req[w].calls.predict_proba = 0

\* the one response of a finished request
Response(w) == req[w].sent[1]

----------------------------------------------------------------------------
(* C1 *)

\* C1: a /predict body that is a mapping lacking at least one of the four keys is
\* answered 400 "Missing required features" with `required` the four canonical
\* names in full, whatever is missing and whatever the present values are; the
\* request never reaches the range check, the scaler or the classifier.
C1_MissingFeatures ==
    \A w \in W :
        (OnPredict(w) /\ LacksAKey(req[w].data.fields)) =>
            /\ req[w].pc \in {"validate", "done"}
            /\ NeverCalled(w)
            /\ req[w].pc = "validate" => req[w].sent = <<>>
            /\ Done(w) =>
                /\ Len(req[w].sent) = 1
                /\ Response(w).status = 400
                /\ Response(w).json = [error |-> "Missing required features",
                                       required |-> Canonical]

\* a body holding only an out-of-range sepal_length has been answered
C1_Witness ==
    \E w \in W :
        /\ OnPredict(w) /\ Done(w)
        /\ DOMAIN req[w].data.fields = {"sepal_length"}
        /\ req[w].data.fields["sepal_length"].v > 80
        /\ Response(w).status = 400

----------------------------------------------------------------------------
(* C2 *)

\* C2: a /predict body with all four keys and numeric values, at least one of
\* them outside its closed interval, is answered 200 with predicted_species
\* "unknown" and neither a `probabilities` nor a `confidence` key, and neither
\* scaler.transform nor the classifier's predict/predict_proba is called.
C2_OutOfRange ==
    \A w \in W :
        (/\ OnPredict(w)
         /\ ~LacksAKey(req[w].data.fields)
         /\ AllNumeric(req[w].data.fields)
         /\ ~WithinProfile(req[w].data.fields)) =>
            /\ req[w].pc \in {"validate", "range", "done"}
            /\ NeverCalled(w)
            /\ Done(w) =>
                /\ Len(req[w].sent) = 1
                /\ Response(w).status = 200
                /\ "predicted_species" \in DOMAIN Response(w).json
                /\ Response(w).json.predicted_species = "unknown"
                /\ "probabilities" \notin DOMAIN Response(w).json
                /\ "confidence" \notin DOMAIN Response(w).json

\* only petal_width is outside, by one tenth, and the request has been answered
C2_Witness ==
    \E w \in W :
        /\ OnPredict(w) /\ Done(w)
        /\ ~LacksAKey(req[w].data.fields)
        /\ AllNumeric(req[w].data.fields)
        /\ WithinProfile([req[w].data.fields EXCEPT !["petal_width"] = FloatVal(25)])
        /\ req[w].data.fields["petal_width"].v = 26
        /\ Response(w).json.predicted_species = "unknown"

----------------------------------------------------------------------------
(* C3 *)

\* the scaler and the classifier are fitted and the classifier is a three-class
\* one with the indices 0, 1, 2: no call of theirs fails
CollaboratorsSucceed ==
    /\ scaler.fitted
    /\ model.fitted
    /\ \A k \in 1..Len(model.classes) : model.classes[k] \in {0, 1, 2}

LabelOf(index) ==
    CASE index = 0 -> "setosa" [] index = 1 -> "versicolor" [] index = 2 -> "virginica"

\* C3: a /predict body whose four values all lie within their closed intervals,
\* endpoints included, with scaler and classifier succeeding, is answered 200:
\* predicted_species is the label of the classifier's predicted index (never
\* "unknown"), `probabilities` has exactly the three label keys bound to the
\* classifier's distribution in index order, and `confidence` is the maximum
\* of the values in `probabilities`.
C3_Prediction ==
    \A w \in W :
        (/\ OnPredict(w) /\ Done(w)
         /\ ~LacksAKey(req[w].data.fields)
         /\ AllNumeric(req[w].data.fields)
         /\ WithinProfile(req[w].data.fields)
         /\ CollaboratorsSucceed) =>
            /\ Len(req[w].sent) = 1
            /\ Response(w).status = 200
            /\ {"predicted_species", "probabilities", "confidence"} \subseteq DOMAIN Response(w).json
            /\ LET j == Response(w).json
                   p == j.probabilities
               IN  /\ req[w].prediction \in {0, 1, 2}
                   /\ j.predicted_species = LabelOf(req[w].prediction)
                   /\ j.predicted_species # "unknown"
                   /\ DOMAIN p = {"setosa", "versicolor", "virginica"}
                   /\ <<p.setosa, p.versicolor, p.virginica>> = req[w].probabilities
                   /\ j.confidence \in {p.setosa, p.versicolor, p.virginica}
                   /\ j.confidence >= p.setosa
                   /\ j.confidence >= p.versicolor
                   /\ j.confidence >= p.virginica

\* every value sits on an endpoint of its interval and the request got a label
C3_Witness ==
    \E w \in W :
        /\ OnPredict(w) /\ Done(w)
        /\ ~LacksAKey(req[w].data.fields)
        /\ req[w].data.fields["sepal_length"].v = 80
        /\ req[w].data.fields["sepal_width"].v = 20
        /\ req[w].data.fields["petal_length"].v = 10
        /\ req[w].data.fields["petal_width"].v = 25
        /\ Response(w).status = 200
        /\ Response(w).json.predicted_species \in Labels

----------------------------------------------------------------------------
(* C4 *)

N(w) == Len(req[w].data.samples)

\* a batch request that carried a non-empty `samples` list
OnSamples(w) == OnBatch(w) /\ req[w].data.has_samples /\ N(w) >= 1

\* C4: a /predict_multiple request with N >= 1 samples that each process without
\* failure is answered 200 with total_samples = N and N predictions in input
\* order: the entry at position i has sample_id = i, counted from zero, and
\* echoes the i-th input sample unchanged as `measurements`.
C4_BatchOrder ==
    \A w \in W :
        (OnSamples(w) /\ Done(w) /\ req[w].exc = "") =>
            /\ Len(req[w].sent) = 1
            /\ Response(w).status = 200
            /\ DOMAIN Response(w).json = {"total_samples", "predictions"}
            /\ Response(w).json.total_samples = N(w)
            /\ Len(Response(w).json.predictions) = N(w)
            /\ \A i \in 0..(N(w) - 1) :
                  /\ Response(w).json.predictions[i + 1].sample_id = i
                  /\ Response(w).json.predictions[i + 1].measurements = req[w].data.samples[i + 1]

\* a batch of two different samples, the second one given with an int, is answered
C4_Witness ==
    \E w \in W :
        /\ OnSamples(w) /\ Done(w)
        /\ req[w].data.samples = <<Setosa, Virginica>>
        /\ Response(w).status = 200
        /\ Response(w).json.predictions[2].measurements["sepal_width"] = IntVal(3)

----------------------------------------------------------------------------
(* C5 *)

EntryKeys(w) == {DOMAIN Response(w).json.predictions[k] : k \in 1..Len(Response(w).json.predictions)}

Answered200(w) == OnSamples(w) /\ Done(w) /\ Response(w).status = 200

\* C5, as stated: each entry of a successful /predict_multiple response is a
\* PredictionResult: the predicted label, the confidence, the full probability
\* distribution over the three labels and the echo of the measurements, paired
\* with its sample_id.
C5_EntryIsPredictionResult ==
    \A w \in W :
        Answered200(w) =>
            \A keys \in EntryKeys(w) :
                {"sample_id", "predicted_species", "confidence", "probabilities", "measurements"}
                    \subseteq keys

\* C5, amended: each entry carries exactly sample_id, predicted_species (one of
\* the three labels), confidence (a probability above zero) and measurements
\* (the sample as sent); it carries no probability distribution.
C5_EntryShape ==
    \A w \in W :
        Answered200(w) =>
            \A k \in 1..Len(Response(w).json.predictions) :
                LET e == Response(w).json.predictions[k]
                IN  /\ DOMAIN e = {"sample_id", "predicted_species", "confidence", "measurements"}
                    /\ e.predicted_species \in {"setosa", "versicolor", "virginica"}
                    /\ e.confidence > 0 /\ e.confidence <= 100
                    /\ e.measurements = req[w].data.samples[k]

C5_Witness ==
    \E w \in W :
        /\ Answered200(w)
        /\ N(w) = 2
        /\ "probabilities" \notin DOMAIN Response(w).json.predictions[1]
        /\ Response(w).json.predictions[1].confidence = 100

----------------------------------------------------------------------------
(* C6 *)

\* C6: /predict_multiple applies no range check: every sample, one outside the
\* RangeProfile included, goes through the scaler and the classifier, and no
\* batch entry ever has predicted_species "unknown": each carries one of the
\* three labels.
C6_NoBatchRangeCheck ==
    \A w \in W :
        OnSamples(w) =>
            /\ req[w].calls.transform >= req[w].i
            /\ req[w].calls.predict >= req[w].i
            /\ req[w].calls.predict_proba >= req[w].i
            /\ \A k \in 1..Len(req[w].results) :
                  req[w].results[k].predicted_species \in {"setosa", "versicolor", "virginica"}
            /\ (Done(w) /\ Response(w).status = 200) =>
                  /\ req[w].calls.transform = N(w)
                  /\ req[w].calls.predict = N(w)
                  /\ req[w].calls.predict_proba = N(w)
                  /\ \A k \in 1..Len(Response(w).json.predictions) :
                        Response(w).json.predictions[k].predicted_species
                            \in {"setosa", "versicolor", "virginica"}

\* the batch of an in-range sample and one with petal_width 99 got two labels,
\* though the range check of /predict calls the second one out of range
C6_Witness ==
    \E w \in W :
        /\ Answered200(w)
        /\ req[w].data.samples = <<Setosa, WildSample>>
        /\ ~WithinProfile(WildSample)
        /\ RangeCheck(WildSample) = "out"
        /\ Response(w).json.predictions[2].predicted_species \in Labels
        /\ req[w].calls.transform = 2

----------------------------------------------------------------------------
(* C7 *)

\* C7: a /predict_multiple request whose `samples` is empty is answered 400
\* {error: "No samples provided"}, and scaler and classifier are not called.
C7_NoSamples ==
    \A w \in W :
        (OnBatch(w) /\ req[w].data.has_samples /\ req[w].data.samples = <<>>) =>
            /\ req[w].pc \in {"samples", "done"}
            /\ NeverCalled(w)
            /\ Done(w) =>
                /\ Len(req[w].sent) = 1
                /\ Response(w) = [status |-> 400, json |-> [error |-> "No samples provided"]]

C7_Witness ==
    \E w \in W :
        /\ OnBatch(w) /\ Done(w)
        /\ req[w].data.has_samples /\ req[w].data.samples = <<>>
        /\ Response(w).status = 400

----------------------------------------------------------------------------
(* C8 *)

\* sample k of the batch cannot be processed: a key is missing or a value is
\* not a number
BadSample(sample) == LacksAKey(sample) \/ ~AllNumeric(sample)

\* C8: when processing of the sample at some position k of a batch fails, the
\* request is answered once, 500 "Batch prediction failed" with the underlying
\* message and without `predictions` for the samples 0..k-1, and no sample
\* after k is processed; a batch is answered either with all N entries or
\* with one batch-level error, never with a partial result.
C8_BatchAborts ==
    \A w \in W :
        OnSamples(w) =>
            /\ req[w].exc # "" =>
                /\ Done(w)
                /\ req[w].sent = <<[status |-> 500,
                                    json |-> [error |-> "Batch prediction failed",
                                              message |-> req[w].exc]]>>
                /\ req[w].i < N(w)
                /\ req[w].calls.transform <= req[w].i + 1
                /\ req[w].calls.predict <= req[w].i + 1
                /\ req[w].calls.predict_proba <= req[w].i + 1
            /\ ~Done(w) => req[w].sent = <<>>
            /\ Done(w) =>
                /\ Len(req[w].sent) = 1
                /\ \/ /\ Response(w).status = 200
                      /\ Len(Response(w).json.predictions) = N(w)
                   \/ /\ Response(w).status = 500
                      /\ "predictions" \notin DOMAIN Response(w).json
                /\ (\E k \in 1..N(w) : BadSample(req[w].data.samples[k])) =>
                      Response(w).status = 500

\* the second sample of a batch lacked a key after the first had been processed
C8_Witness ==
    \E w \in W :
        /\ OnSamples(w) /\ Done(w)
        /\ N(w) = 2
        /\ ~BadSample(req[w].data.samples[1])
        /\ LacksAKey(req[w].data.samples[2])
        /\ req[w].i = 1
        /\ Len(req[w].results) = 1
        /\ Response(w).status = 500
        /\ req[w].exc = "'sepal_width'"

----------------------------------------------------------------------------
(* C9 *)

\* C9: on /predict any exception raised after the key-presence check (a
\* non-numeric value in the range comparison, a scaler or classifier failure,
\* a predicted index outside the label map) ends the request with exactly one
\* 500 "Prediction failed" carrying the underlying message; no step is retried
\* and no fallback inference is made; every request ends with exactly one
\* response, whose status is 200, 400 or 500.
C9_PredictFails ==
    \A w \in W :
        req[w].route = "/predict" =>
            /\ req[w].exc # "" =>
                /\ Done(w)
                /\ req[w].sent = <<[status |-> 500,
                                    json |-> [error |-> "Prediction failed",
                                              message |-> req[w].exc]]>>
            /\ req[w].calls.transform <= 1
            /\ req[w].calls.predict <= 1
            /\ req[w].calls.predict_proba <= 1
            /\ ~Done(w) => (req[w].sent = <<>> /\ ENABLED Handle(w))
            /\ Done(w) =>
                /\ Len(req[w].sent) = 1
                /\ Response(w).status \in {200, 400, 500}
                /\ (/\ ~req[w].data.isNone
                    /\ ~LacksAKey(req[w].data.fields)
                    /\ \/ ~IsNumber(req[w].data.fields["sepal_length"])
                       \/ /\ AllNumeric(req[w].data.fields)
                          /\ WithinProfile(req[w].data.fields)
                          /\ (~scaler.fitted \/ ~model.fitted \/ req[w].prediction = 3))
                   => (Response(w).status = 500 /\ req[w].exc # "")

\* the classifier returned an index the label map does not hold
C9_Witness ==
    \E w \in W :
        /\ OnPredict(w) /\ Done(w)
        /\ req[w].prediction = 3
        /\ req[w].calls = [transform |-> 1, predict |-> 1, predict_proba |-> 1]
        /\ Response(w) = [status |-> 500, json |-> [error |-> "Prediction failed", message |-> "3"]]

----------------------------------------------------------------------------
(* C10 *)

\* two /predict requests with the same body have the same response
SameBodySameResponse ==
    \A w1, w2 \in W :
        (/\ req[w1].route = "/predict" /\ Done(w1)
         /\ req[w2].route = "/predict" /\ Done(w2)
         /\ req[w1].data = req[w2].data) =>
            req[w1].sent = req[w2].sent

\* C10: no handler modifies the shared model, scaler or label map, and under any
\* interleaving of requests the response to a /predict request is a function of
\* its body alone: the same body always gets the same response, whatever other
\* requests ran before or run at the same time.
C10_Stateless ==
    /\ []SameBodySameResponse
    /\ [][model' = model /\ scaler' = scaler /\ SPECIES_MAP' = SPECIES_MAP]_vars

\* two workers hold the responses to the same body, a labelled prediction
C10_Witness ==
    \E w1, w2 \in W :
        /\ w1 # w2
        /\ req[w1].route = "/predict" /\ Done(w1)
        /\ req[w2].route = "/predict" /\ Done(w2)
        /\ req[w1].data = req[w2].data
        /\ Response(w1).status = 200
        /\ Response(w1).json.predicted_species \in Labels

====
